---- MODULE Spec2Model ----
(***************************************************************************)
(* State-machine model of SceneManager (SceneManager.cpp): the texture     *)
(* registry (m_textureIDs, m_loadedTextures), the material catalog         *)
(* (m_objectMaterials), the transform composition of SetTransformations    *)
(* and the OpenGL / shader state those methods act on.                     *)
(*                                                                         *)
(* Conventions                                                             *)
(*  - slot i of the C++ array m_textureIDs is element i+1 of the sequence  *)
(*    m_textureIDs; elements past MaxTextureSlots stand for the memory     *)
(*    behind the array that an out-of-bounds write lands in.               *)
(*  - floats are fixed-point integers in thousandths (Milli = 1000).       *)
(*  - the image decoder's answer is a channel count: 0 means stbi_load     *)
(*    returned NULL, 1..4 is the decoded colorChannels.                    *)
(***************************************************************************)
EXTENDS Integers, Sequences, FiniteSets, TLC

\* ------------------------------------------------------------------ bounds
\* direct CreateGLTexture calls that decode an image, in one behaviour
MaxLoads == 3
\* the same, between the scene's own operations
MaxSceneLoads == 1
\* PrepareScene calls explored in one behaviour
MaxPrepare == 2
\* DestroyGLTextures calls explored in one behaviour
MaxDestroy == 1
\* direct push_back calls on the material catalog explored in one behaviour
MaxCatalog == 3
\* catalog entries when the shader-state setters are driven directly
MaxShaderCatalog == 1
\* SetTransformations inputs: scale in 1..MaxScale, position in
\* 0..MaxPos, each angle k * 90 degrees for k in 0..MaxQuarterTurns
MaxScale == 2
MaxPos == 1
MaxQuarterTurns == 3

\* --------------------------------------------------------- program constants
\* size of the m_textureIDs array ("There are up to 16 slots")
MaxTextureSlots == 16
\* the value FindTextureID / FindTextureSlot return when nothing matches
NotFound == -1
\* fixed-point unit: 1.0f is Milli
Milli == 1000

\* tags used by direct CreateGLTexture calls, and tags looked up
Tags == {"a", "b"}
LookupTags == Tags \cup {"missing"}
SceneLookupTags == {"a", "wood"}
\* answers of stbi_load: 0 = NULL, otherwise colorChannels
DecodeOutcomes == 0..4

VARIABLES
    m_textureIDs,       \* sequence of [tag, ID]: the registry array
    m_loadedTextures,   \* number of registered textures
    m_objectMaterials,  \* the material catalog (std::vector)
    m_pShaderManager,   \* "shader" or "NULL"
    glNextName,         \* next texture name glGenTextures hands out
    glTextures,         \* texture names generated and not deleted
    glActive,           \* the active texture unit (glActiveTexture)
    glUnits,            \* unit -> texture bound to GL_TEXTURE_2D (absent = 0)
    heldImages,         \* decoded image buffers not yet stbi_image_free'd
    ub,                 \* an out-of-bounds registry write has happened
    uniforms,           \* the shader program's uniforms, by name
    fault,              \* a NULL m_pShaderManager has been dereferenced
    meshes,             \* mesh kinds loaded into m_basicMeshes
    drawn,              \* mesh kinds drawn by the last RenderScene, in order
    issued,             \* what the last operation called, in order: internal
                        \* calls, uniform writes, mesh loads and draws
    material,           \* the caller's OBJECT_MATERIAL passed to FindMaterial
    xform,              \* the arguments of SetTransformations
    directLoads,        \* direct CreateGLTexture calls that decoded an image
    destroys,           \* DestroyGLTextures calls so far
    ret                 \* the last call: operation, arguments, return value

regVars == <<m_textureIDs, m_loadedTextures>>
glVars == <<glNextName, glTextures, glActive, glUnits, heldImages>>
shaderVars == <<uniforms, fault, drawn>>
countVars == <<directLoads, destroys>>
vars == <<m_textureIDs, m_loadedTextures, m_objectMaterials, m_pShaderManager,
          glNextName, glTextures, glActive, glUnits, heldImages, ub, uniforms,
          fault, meshes, drawn, issued, material, xform, directLoads, destroys,
          ret>>

\* ------------------------------------------------------------------ helpers
\* one entry of the call log: a uniform write carries the uniform's name and
\* value, any other call its own name and its argument
Issue(log, name, value) == Append(log, [name |-> name, value |-> value])

Call(op, tag, chan, ok, val) ==
    [op |-> op, tag |-> tag, chan |-> chan, ok |-> ok, val |-> val]

BindUnit(units, u, id) == [x \in (DOMAIN units) \cup {u} |->
                              IF x = u THEN id ELSE units[x]]

\* ------------------------------------------------------- registry lookups
\* the while loop of FindTextureID / FindTextureSlot: the first index below
\* m_loadedTextures whose tag compares equal
RECURSIVE ScanTextures(_, _, _, _)
ScanTextures(ids, loaded, tag, index) ==
    IF index < loaded
    THEN IF ids[index + 1].tag = tag
         THEN index
         ELSE ScanTextures(ids, loaded, tag, index + 1)
    ELSE NotFound

\* mutant: textureSlot starts as 0 instead of -1
FindTextureSlot_ZeroStart(ids, loaded, tag) ==
    LET index == ScanTextures(ids, loaded, tag, 0)
    IN  IF index = NotFound THEN 0 ELSE index

\* lines 190-208
FindTextureSlot(ids, loaded, tag) == ScanTextures(ids, loaded, tag, 0)

\* lines 164-182
FindTextureID(ids, loaded, tag) ==
    LET index == ScanTextures(ids, loaded, tag, 0)
    IN  IF index = NotFound THEN NotFound ELSE ids[index + 1].ID

\* ------------------------------------------------------- material catalog
\* the while loop of FindMaterial: the first index whose tag compares equal,
\* or the catalog size when none does
RECURSIVE ScanMaterials(_, _, _)
ScanMaterials(mats, tag, index) ==
    IF index < Len(mats)
    THEN IF mats[index + 1].tag = tag
         THEN index
         ELSE ScanMaterials(mats, tag, index + 1)
    ELSE index

\* mutant: the specularColor assignment is missing
CopyMaterial_NoSpecular(out, m) ==
    [out EXCEPT !.ambientColor = m.ambientColor,
                !.ambientStrength = m.ambientStrength,
                !.diffuseColor = m.diffuseColor,
                !.shininess = m.shininess]

\* lines 230-234: five fields are assigned, the tag of the output is not
CopyMaterial(out, m) ==
    [out EXCEPT !.ambientColor = m.ambientColor,
                !.ambientStrength = m.ambientStrength,
                !.diffuseColor = m.diffuseColor,
                !.specularColor = m.specularColor,
                !.shininess = m.shininess]

\* lines 216-243: returns false only for an empty catalog, true otherwise
FindMaterial(mats, tag, out) ==
    IF Len(mats) = 0
    THEN [ok |-> FALSE, material |-> out]
    ELSE LET index == ScanMaterials(mats, tag, 0)
         IN  [ok |-> TRUE,
              material |-> IF index < Len(mats)
                           THEN CopyMaterial(out, mats[index + 1])
                           ELSE out]

\* ------------------------------------------------------- transform algebra
\* 4x4 matrices are tuples of four rows; entries are fixed-point (Milli)
Dot4(a, b) == a[1] * b[1] + a[2] * b[2] + a[3] * b[3] + a[4] * b[4]

Column(B, j) == <<B[1][j], B[2][j], B[3][j], B[4][j]>>

\* glm operator* on mat4
RowTimes(a, B) ==
    << Dot4(a, Column(B, 1)) \div Milli, Dot4(a, Column(B, 2)) \div Milli,
       Dot4(a, Column(B, 3)) \div Milli, Dot4(a, Column(B, 4)) \div Milli >>

MatMul(A, B) ==
    << RowTimes(A[1], B), RowTimes(A[2], B), RowTimes(A[3], B),
       RowTimes(A[4], B) >>

\* cos and sin of glm::radians(degrees), in thousandths, for the right
\* angles and the angles the scene uses
CosMilli(degrees) ==
    LET d == degrees % 360
    IN  CASE d = 0 -> 1000   [] d = 90 -> 0      [] d = 180 -> -1000
          [] d = 270 -> 0    [] d = 5 -> 996     [] d = 20 -> 940
          [] d = 70 -> 342   [] d = 250 -> -342  [] d = 315 -> 707
          [] d = 330 -> 866  [] d = 338 -> 927   [] d = 340 -> 940
          [] d = 350 -> 985

SinMilli(degrees) ==
    LET d == degrees % 360
    IN  CASE d = 0 -> 0        [] d = 90 -> 1000   [] d = 180 -> 0
          [] d = 270 -> -1000  [] d = 5 -> 87      [] d = 20 -> 342
          [] d = 70 -> 940     [] d = 250 -> -940  [] d = 315 -> -707
          [] d = 330 -> -500   [] d = 338 -> -375  [] d = 340 -> -342
          [] d = 350 -> -174

\* glm::scale(v)
ScaleMat(v) ==
    << <<v[1], 0, 0, 0>>, <<0, v[2], 0, 0>>, <<0, 0, v[3], 0>>,
       <<0, 0, 0, Milli>> >>

\* glm::translate(v)
TranslateMat(v) ==
    << <<Milli, 0, 0, v[1]>>, <<0, Milli, 0, v[2]>>, <<0, 0, Milli, v[3]>>,
       <<0, 0, 0, Milli>> >>

\* glm::rotate(glm::radians(degrees), axis) for the three unit axes
RotateXMat(degrees) ==
    LET c == CosMilli(degrees)  s == SinMilli(degrees)
    IN  << <<Milli, 0, 0, 0>>, <<0, c, -s, 0>>, <<0, s, c, 0>>,
           <<0, 0, 0, Milli>> >>

\* mutant: the rotation about Y turns the other way
RotateYMat_Clockwise(degrees) ==
    LET c == CosMilli(degrees)  s == SinMilli(degrees)
    IN  << <<c, 0, -s, 0>>, <<0, Milli, 0, 0>>, <<s, 0, c, 0>>,
           <<0, 0, 0, Milli>> >>

RotateYMat(degrees) ==
    LET c == CosMilli(degrees)  s == SinMilli(degrees)
    IN  << <<c, 0, s, 0>>, <<0, Milli, 0, 0>>, <<-s, 0, c, 0>>,
           <<0, 0, 0, Milli>> >>

RotateZMat(degrees) ==
    LET c == CosMilli(degrees)  s == SinMilli(degrees)
    IN  << <<c, -s, 0, 0>>, <<s, c, 0, 0>>, <<0, 0, Milli, 0>>,
           <<0, 0, 0, Milli>> >>

\* mutant: the factors are multiplied in the opposite order
ComposeModel_Reversed(translation, rotationX, rotationY, rotationZ, scale) ==
    MatMul(MatMul(MatMul(MatMul(scale, rotationZ), rotationY), rotationX),
           translation)

\* line 275: modelView = translation * rotationX * rotationY * rotationZ * scale
\* (operator* associates to the left)
ComposeModel(translation, rotationX, rotationY, rotationZ, scale) ==
    MatMul(MatMul(MatMul(MatMul(translation, rotationX), rotationY),
                  rotationZ), scale)

\* lines 266-275
ModelView(scaleXYZ, XrotationDegrees, YrotationDegrees, ZrotationDegrees, positionXYZ) ==
    ComposeModel(TranslateMat(positionXYZ),
                 RotateXMat(XrotationDegrees),
                 RotateYMat(YrotationDegrees),
                 RotateZMat(ZrotationDegrees),
                 ScaleMat(scaleXYZ))

\* ------------------------------------------------------- shader state
\* The shader side is a record G: sink (m_pShaderManager), u (uniforms),
\* drawn (mesh kinds drawn), fault (a NULL sink was dereferenced), log (the
\* calls issued so far by the running operation).
ZeroMat ==
    << <<0, 0, 0, 0>>, <<0, 0, 0, 0>>, <<0, 0, 0, 0>>, <<0, 0, 0, 0>> >>

LightFields3 == {"position", "ambientColor", "diffuseColor", "specularColor"}
LightFields1 == {"focalStrength", "specularIntensity"}
LightName(i, f) ==
    IF i = 0 THEN "lightSources[0]." \o f ELSE "lightSources[1]." \o f

Vec3Uniforms ==
    {"material.ambientColor", "material.diffuseColor",
     "material.specularColor"}
    \cup {LightName(i, f) : i \in {0, 1}, f \in LightFields3}
ScalarUniforms ==
    {"bUseTexture", "objectTexture", "bUseLighting",
     "material.ambientStrength", "material.shininess"}
    \cup {LightName(i, f) : i \in {0, 1}, f \in LightFields1}
UniformNames ==
    {"model", "objectColor", "UVscale"} \cup Vec3Uniforms \cup ScalarUniforms

\* every uniform of a freshly linked program is zero
ZeroUniforms ==
    [n \in UniformNames |->
        IF n = "model" THEN ZeroMat
        ELSE IF n = "objectColor" THEN <<0, 0, 0, 0>>
        ELSE IF n = "UVscale" THEN <<0, 0>>
        ELSE IF n \in Vec3Uniforms THEN <<0, 0, 0>>
        ELSE 0]

\* one call of a ShaderManager setter through m_pShaderManager
SetUniform(G, name, value) ==
    IF G.sink = "NULL"
    THEN [G EXCEPT !.fault = TRUE]
    ELSE [G EXCEPT !.u[name] = value, !.log = Issue(G.log, name, value)]

\* lines 277-280: the upload of the composed matrix
UploadModel(G, modelView) ==
    IF G.sink # "NULL" THEN SetUniform(G, "model", modelView) ELSE G

\* lines 251-281
SetTransformationsStep(G, scaleXYZ, rx, ry, rz, positionXYZ) ==
    UploadModel(G, ModelView(scaleXYZ, rx, ry, rz, positionXYZ))

\* lines 289-308
SetShaderColorStep(G, r, g, b, a) ==
    IF G.sink # "NULL"
    THEN SetUniform(SetUniform(G, "bUseTexture", 0),
                    "objectColor", <<r, g, b, a>>)
    ELSE G

\* mutant: the sampler unit is written, the use-texture flag is not
SetShaderTextureStep_FlagLeft(G, ids, loaded, textureTag) ==
    IF G.sink # "NULL"
    THEN SetUniform(G, "objectTexture", FindTextureSlot(ids, loaded, textureTag))
    ELSE G

\* lines 316-327
SetShaderTextureStep(G, ids, loaded, textureTag) ==
    IF G.sink # "NULL"
    THEN SetUniform(SetUniform(G, "bUseTexture", 1),
                    "objectTexture", FindTextureSlot(ids, loaded, textureTag))
    ELSE G

\* mutant: the write is left out when the uniform already holds the value
SetTextureUVScaleStep_SkipSame(G, u, v) ==
    IF G.sink # "NULL" /\ G.u["UVscale"] # <<u, v>>
    THEN SetUniform(G, "UVscale", <<u, v>>)
    ELSE G

\* lines 335-341
SetTextureUVScaleStep(G, u, v) ==
    IF G.sink # "NULL" THEN SetUniform(G, "UVscale", <<u, v>>) ELSE G

\* lines 349-367: the local OBJECT_MATERIAL is uninitialised (junk) and the
\* setters are called without a NULL check
SetShaderMaterialStep(G, mats, materialTag, junk) ==
    IF Len(mats) > 0
    THEN LET found == FindMaterial(mats, materialTag, junk)
             m == found.material
         IN  IF found.ok
             THEN SetUniform(SetUniform(SetUniform(SetUniform(SetUniform(G,
                    "material.ambientColor", m.ambientColor),
                    "material.ambientStrength", m.ambientStrength),
                    "material.diffuseColor", m.diffuseColor),
                    "material.specularColor", m.specularColor),
                    "material.shininess", m.shininess)
             ELSE G
    ELSE G

\* m_basicMeshes->Draw<kind>Mesh()
DrawMeshStep(G, kind) ==
    [G EXCEPT !.drawn = Append(G.drawn, kind),
              !.log = Issue(G.log, "DrawMesh", kind)]

\* ------------------------------------------------------- CreateGLTexture
\* mutant: every decoded image is uploaded and registered
ChannelsSupported_AnyDecoded(colorChannels) == colorChannels \in 1..4

\* lines 96-105: only RGB and RGBA images are uploaded
ChannelsSupported(colorChannels) == colorChannels \in {3, 4}

\* lines 115-116: m_textureIDs[m_loadedTextures] = {textureID, tag}
RegisterTexture(ids, loaded, textureID, tag) ==
    LET entry == [tag |-> tag, ID |-> textureID]
    IN  IF loaded < Len(ids)
        THEN [ids EXCEPT ![loaded + 1] = entry]
        ELSE Append(ids, entry)

\* The OpenGL and registry state is a record S: ids, loaded, next (texture
\* name), textures, active (unit), units, held (images), ub, ok (the return
\* value of the last CreateGLTexture), log (the calls issued so far by the
\* running operation).
\* lines 62-126.  An out-of-bounds write (loaded >= MaxTextureSlots) is
\* recorded in ub; here the write lands behind the array.
CreateGLTextureStep(S, colorChannels, tag) ==
    IF colorChannels = 0
    THEN [S EXCEPT !.ok = FALSE,
                   !.log = Issue(S.log, "CreateGLTexture", tag)]                       \* image == NULL
    ELSE LET textureID == S.next                        \* glGenTextures
             gen == [S EXCEPT !.log = Issue(S.log, "CreateGLTexture", tag),
                              !.next = S.next + 1,
                              !.textures = S.textures \cup {textureID},
                              \* glBindTexture(GL_TEXTURE_2D, textureID)
                              !.units = BindUnit(S.units, S.active, textureID)]
         IN  IF ChannelsSupported(colorChannels)
             THEN [gen EXCEPT
                     \* stbi_image_free(image); glBindTexture(.., 0)
                     !.units = BindUnit(gen.units, S.active, 0),
                     !.ids = RegisterTexture(S.ids, S.loaded, textureID, tag),
                     !.loaded = S.loaded + 1,
                     !.ub = S.ub \/ S.loaded >= MaxTextureSlots,
                     !.ok = TRUE]
             ELSE \* return false at line 104: image not freed, texture
                  \* still bound and allocated
                  [gen EXCEPT !.held = S.held + 1, !.ok = FALSE]

\* lines 134-142
RECURSIVE BindFrom(_, _)
BindFrom(S, i) ==
    IF i < S.loaded
    THEN BindFrom([S EXCEPT !.active = i,
                            !.units = BindUnit(S.units, i, S.ids[i + 1].ID)],
                  i + 1)
    ELSE S

\* mutant: the loop starts at index 1
BindGLTexturesStep_FromOne(S) ==
    BindFrom([S EXCEPT !.log = Issue(S.log, "BindGLTextures", S.loaded)], 1)

BindGLTexturesStep(S) ==
    BindFrom([S EXCEPT !.log = Issue(S.log, "BindGLTextures", S.loaded)], 0)

\* lines 150-156: glGenTextures (not glDeleteTextures) on every entry;
\* m_loadedTextures is not reset
RECURSIVE DestroyFrom(_, _)
DestroyFrom(S, i) ==
    IF i < S.loaded
    THEN DestroyFrom([S EXCEPT !.ids[i + 1].ID = S.next,
                               !.textures = S.textures \cup {S.next},
                               !.next = S.next + 1],
                     i + 1)
    ELSE S

DestroyGLTexturesStep(S) == DestroyFrom(S, 0)

\* ------------------------------------------------------- the scene
\* lines 547-566: the files LoadSceneTextures loads, with their tags
SceneTextures == <<
    [file |-> "Eevee_playmat_texture.png", tag |-> "playmat"],
    [file |-> "Wood_texture.jpg", tag |-> "wood"],
    [file |-> "Pencil_cylinder_texture.png", tag |-> "pencilCylinder"],
    [file |-> "Metal_grate_texture.jpg", tag |-> "metal"],
    [file |-> "Plains_texture.png", tag |-> "plains"],
    [file |-> "Plastic_texture.jpg", tag |-> "plastic"],
    [file |-> "Lead_texture.jpg", tag |-> "lead"],
    [file |-> "Layered_cards_texture.png", tag |-> "deck"],
    [file |-> "Rubber_texture.jpg", tag |-> "rubber"],
    [file |-> "Marble_texture.jpg", tag |-> "marble"] >>

PngFiles == {"Eevee_playmat_texture.png", "Pencil_cylinder_texture.png",
             "Plains_texture.png", "Layered_cards_texture.png"}

\* what the decoder answers for the scene's files: every file decodes, no
\* file is found, one JPEG is greyscale
DecodeScenarios == {"all", "none", "greyMarble"}

Decode(scenario, file) ==
    CASE scenario = "all" -> IF file \in PngFiles THEN 4 ELSE 3
      [] scenario = "none" -> 0
      [] scenario = "greyMarble" ->
            IF file = "Marble_texture.jpg" THEN 1
            ELSE IF file \in PngFiles THEN 4 ELSE 3

\* lines 537-572
RECURSIVE LoadFrom(_, _, _)
LoadFrom(S, scenario, i) ==
    IF i <= Len(SceneTextures)
    THEN LoadFrom(CreateGLTextureStep(S, Decode(scenario, SceneTextures[i].file),
                                      SceneTextures[i].tag),
                  scenario, i + 1)
    ELSE S

\* mutant: the textures are bound before they are loaded
LoadSceneTexturesStep_BindFirst(S, scenario) ==
    LoadFrom(BindGLTexturesStep(S), scenario, 1)

LoadSceneTexturesStep(S, scenario) ==
    BindGLTexturesStep(LoadFrom(S, scenario, 1))

\* lines 383-494: the materials DefineObjectMaterials pushes, in order
SceneMaterials == <<
    [tag |-> "metalMaterial", ambientColor |-> <<200, 200, 200>>, ambientStrength |-> 300,
     diffuseColor |-> <<200, 200, 200>>, specularColor |-> <<500, 500, 500>>, shininess |-> 10000],
    [tag |-> "woodMaterial", ambientColor |-> <<100, 100, 100>>, ambientStrength |-> 200,
     diffuseColor |-> <<200, 200, 200>>, specularColor |-> <<100, 100, 100>>, shininess |-> 300],
    [tag |-> "plasticMaterial", ambientColor |-> <<0, 0, 300>>, ambientStrength |-> 400,
     diffuseColor |-> <<0, 0, 800>>, specularColor |-> <<500, 500, 500>>, shininess |-> 6000],
    [tag |-> "cardMaterial", ambientColor |-> <<200, 200, 200>>, ambientStrength |-> 400,
     diffuseColor |-> <<300, 300, 300>>, specularColor |-> <<100, 100, 100>>, shininess |-> 100],
    [tag |-> "fabricMaterial", ambientColor |-> <<200, 200, 200>>, ambientStrength |-> 300,
     diffuseColor |-> <<300, 300, 200>>, specularColor |-> <<100, 100, 100>>, shininess |-> 0],
    [tag |-> "glossyPencilMaterial", ambientColor |-> <<300, 200, 0>>, ambientStrength |-> 500,
     diffuseColor |-> <<200, 200, 100>>, specularColor |-> <<300, 300, 300>>, shininess |-> 2000],
    [tag |-> "pencilLeadMaterial", ambientColor |-> <<100, 100, 100>>, ambientStrength |-> 200,
     diffuseColor |-> <<200, 200, 200>>, specularColor |-> <<0, 0, 0>>, shininess |-> 0],
    [tag |-> "pinkEraserMaterial", ambientColor |-> <<500, 200, 300>>, ambientStrength |-> 300,
     diffuseColor |-> <<300, 150, 100>>, specularColor |-> <<200, 200, 200>>, shininess |-> 2000],
    [tag |-> "marbleMaterial", ambientColor |-> <<100, 300, 100>>, ambientStrength |-> 400,
     diffuseColor |-> <<100, 300, 100>>, specularColor |-> <<500, 500, 500>>, shininess |-> 6000] >>

DefineObjectMaterialsStep(mats) == mats \o SceneMaterials

\* lines 503-527: no NULL check on m_pShaderManager
SceneLights == <<
    [position |-> <<-30000, 14000, -2000>>, ambientColor |-> <<300, 300, 400>>,
     diffuseColor |-> <<600, 500, 400>>, specularColor |-> <<200, 200, 200>>,
     focalStrength |-> 32000, specularIntensity |-> 400],
    [position |-> <<3000, 20000, -26000>>, ambientColor |-> <<300, 300, 300>>,
     diffuseColor |-> <<600, 550, 400>>, specularColor |-> <<600, 600, 600>>,
     focalStrength |-> 32000, specularIntensity |-> 600] >>

SetLight(G, i) ==
    LET l == SceneLights[i + 1]
    IN  SetUniform(SetUniform(SetUniform(SetUniform(SetUniform(SetUniform(G,
            LightName(i, "position"), l.position),
            LightName(i, "ambientColor"), l.ambientColor),
            LightName(i, "diffuseColor"), l.diffuseColor),
            LightName(i, "specularColor"), l.specularColor),
            LightName(i, "focalStrength"), l.focalStrength),
            LightName(i, "specularIntensity"), l.specularIntensity)

SetupSceneLightsStep(G) ==
    SetLight(SetLight(SetUniform(G, "bUseLighting", 1), 0), 1)

\* lines 598-603
SceneMeshes ==
    {"Plane", "Cone", "Box", "Cylinder", "TaperedCylinder", "Pyramid3"}

\* lines 598-603: the mesh loads in the order PrepareScene makes them
SceneMeshLoads ==
    <<"Plane", "Cone", "Box", "Cylinder", "TaperedCylinder", "Pyramid3">>

LoadSceneMeshes(log) ==
    log \o [i \in 1..Len(SceneMeshLoads) |->
               [name |-> "LoadMesh", value |-> SceneMeshLoads[i]]]

\* lines 625-1156: the objects RenderPencil, RenderCards and RenderDice draw,
\* in order; uv is empty where the code makes no SetTextureUVScale call
SceneObjects == <<
    [scale |-> <<15000, 1000, 8000>>, rx |-> 0, ry |-> 0, rz |-> 0, pos |-> <<0, 0, 0>>,
     texture |-> "playmat", uv |-> <<<<1000, 1000>>>>, material |-> "fabricMaterial", mesh |-> "Plane"],
    [scale |-> <<150, 7000, 150>>, rx |-> 90, ry |-> 0, rz |-> 70, pos |-> <<12000, 150, 4000>>,
     texture |-> "pencilCylinder", uv |-> <<<<1000, 1000>>>>, material |-> "glossyPencilMaterial", mesh |-> "Cylinder"],
    [scale |-> <<155, 350, 155>>, rx |-> 90, ry |-> 0, rz |-> 70, pos |-> <<5600, 150, 6330>>,
     texture |-> "metal", uv |-> <<<<700, 700>>>>, material |-> "metalMaterial", mesh |-> "Cylinder"],
    [scale |-> <<150, 500, 150>>, rx |-> 90, ry |-> 0, rz |-> 70, pos |-> <<5600, 150, 6330>>,
     texture |-> "rubber", uv |-> <<>>, material |-> "pinkEraserMaterial", mesh |-> "Cylinder"],
    [scale |-> <<150, 420, 150>>, rx |-> 90, ry |-> 0, rz |-> -110, pos |-> <<12000, 150, 4000>>,
     texture |-> "wood", uv |-> <<<<1000, 1000>>>>, material |-> "woodMaterial", mesh |-> "TaperedCylinder"],
    [scale |-> <<145, 750, 145>>, rx |-> 90, ry |-> 0, rz |-> -110, pos |-> <<12000, 150, 4000>>,
     texture |-> "lead", uv |-> <<>>, material |-> "pencilLeadMaterial", mesh |-> "Cone"],
    [scale |-> <<3500, 2000, 4900>>, rx |-> 0, ry |-> 5, rz |-> 0, pos |-> <<-10000, 1000, 2700>>,
     texture |-> "deck", uv |-> <<<<1000, 1000>>>>, material |-> "plasticMaterial", mesh |-> "Box"],
    [scale |-> <<3500, 20, 4900>>, rx |-> 0, ry |-> 5, rz |-> 0, pos |-> <<-10000, 2010, 2700>>,
     texture |-> "plastic", uv |-> <<<<1000, 1000>>>>, material |-> "plasticMaterial", mesh |-> "Box"],
    [scale |-> <<1750, 0, 2450>>, rx |-> 0, ry |-> 20, rz |-> 0, pos |-> <<-1500, 50, 3000>>,
     texture |-> "plains", uv |-> <<<<1000, 1000>>>>, material |-> "cardMaterial", mesh |-> "Plane"],
    [scale |-> <<1750, 0, 2450>>, rx |-> 0, ry |-> -10, rz |-> 0, pos |-> <<-250, 20, 3000>>,
     texture |-> "plastic", uv |-> <<<<1000, 1000>>>>, material |-> "plasticMaterial", mesh |-> "Plane"],
    [scale |-> <<1750, 0, 2450>>, rx |-> 0, ry |-> -20, rz |-> 0, pos |-> <<300, 10, 3250>>,
     texture |-> "plastic", uv |-> <<<<1000, 1000>>>>, material |-> "plasticMaterial", mesh |-> "Plane"],
    [scale |-> <<1750, 0, 2450>>, rx |-> 0, ry |-> -22, rz |-> 0, pos |-> <<300, 5, 3300>>,
     texture |-> "plastic", uv |-> <<<<1000, 1000>>>>, material |-> "plasticMaterial", mesh |-> "Plane"],
    [scale |-> <<1750, 0, 2450>>, rx |-> 0, ry |-> -22, rz |-> 0, pos |-> <<300, 5, 3300>>,
     texture |-> "plastic", uv |-> <<<<1000, 1000>>>>, material |-> "plasticMaterial", mesh |-> "Plane"],
    [scale |-> <<800, 800, 800>>, rx |-> 0, ry |-> -30, rz |-> 0, pos |-> <<-3100, 400, -640>>,
     texture |-> "marble", uv |-> <<<<1100, 1100>>>>, material |-> "marbleMaterial", mesh |-> "Pyramid3"],
    [scale |-> <<800, 800, 800>>, rx |-> 0, ry |-> -45, rz |-> 0, pos |-> <<-1400, 400, -1500>>,
     texture |-> "marble", uv |-> <<<<1000, 1000>>>>, material |-> "marbleMaterial", mesh |-> "Box"] >>

\* the matrix SetTransformations composes for each object of the scene: it
\* depends on the object alone, and is computed once
SceneModelViews ==
    [i \in 1..Len(SceneObjects) |->
        LET o == SceneObjects[i]
        IN  ModelView(o.scale, o.rx, o.ry, o.rz, o.pos)]

\* mutant: an object that sets no UV scale is drawn with the scale (1, 1)
RenderObjectStep_ResetUV(G, ids, loaded, mats, i, junk) ==
    LET o == SceneObjects[i]
        g1 == UploadModel(G, SceneModelViews[i])
        g2 == SetShaderTextureStep(g1, ids, loaded, o.texture)
        g3 == IF o.uv = <<>> THEN SetTextureUVScaleStep(g2, Milli, Milli)
              ELSE SetTextureUVScaleStep(g2, o.uv[1][1], o.uv[1][2])
        g4 == SetShaderMaterialStep(g3, mats, o.material, junk)
    IN  DrawMeshStep(g4, o.mesh)

\* mutant: an object whose texture tag does not resolve is not drawn
RenderObjectStep_SkipUnresolved(G, ids, loaded, mats, i, junk) ==
    LET o == SceneObjects[i]
        g1 == UploadModel(G, SceneModelViews[i])
        g2 == SetShaderTextureStep(g1, ids, loaded, o.texture)
        g3 == IF o.uv = <<>> THEN g2
              ELSE SetTextureUVScaleStep(g2, o.uv[1][1], o.uv[1][2])
        g4 == SetShaderMaterialStep(g3, mats, o.material, junk)
    IN  IF FindTextureSlot(ids, loaded, o.texture) = NotFound
        THEN g4
        ELSE DrawMeshStep(g4, o.mesh)

\* object i: SetTransformations, SetShaderTexture, SetTextureUVScale (if
\* any), SetShaderMaterial, Draw<kind>Mesh
RenderObjectStep(G, ids, loaded, mats, i, junk) ==
    LET o == SceneObjects[i]
        g1 == UploadModel(G, SceneModelViews[i])
        g2 == SetShaderTextureStep(g1, ids, loaded, o.texture)
        g3 == IF o.uv = <<>> THEN g2
              ELSE SetTextureUVScaleStep(g2, o.uv[1][1], o.uv[1][2])
        g4 == SetShaderMaterialStep(g3, mats, o.material, junk)
    IN  DrawMeshStep(g4, o.mesh)

\* lines 612-617
RECURSIVE RenderFrom(_, _, _, _, _, _)
RenderFrom(G, ids, loaded, mats, junk, i) ==
    IF i <= Len(SceneObjects)
    THEN LET g == RenderObjectStep(G, ids, loaded, mats, i, junk)
         IN  \* i objects have been drawn: the test is always true, and makes
             \* TLC evaluate object i before it goes on to the next
             IF Len(g.drawn) = i
             THEN RenderFrom(g, ids, loaded, mats, junk, i + 1)
             ELSE g
    ELSE G

RenderSceneStep(G, ids, loaded, mats, junk) ==
    RenderFrom([G EXCEPT !.drawn = <<>>], ids, loaded, mats, junk, 1)

\* ------------------------------------------------------------------ actions
\* the registry and OpenGL variables as one record
Machine ==
    [ids |-> m_textureIDs, loaded |-> m_loadedTextures, next |-> glNextName,
     textures |-> glTextures, active |-> glActive, units |-> glUnits,
     held |-> heldImages, ub |-> ub, ok |-> TRUE, log |-> <<>>]

\* the shader-side variables as one record
Shader ==
    [sink |-> m_pShaderManager, u |-> uniforms, drawn |-> drawn,
     fault |-> fault, log |-> <<>>]

\* sample of the values a clobbered m_loadedTextures may read as
ClobberValues == {0, 1, MaxTextureSlots}

\* what an out-of-bounds write may leave in m_loadedTextures: the
\* incremented count (the write landed behind the array) or any value the
\* clobbered member now reads as
OverflowOutcomes(S) ==
    IF S.ub /\ ~ub THEN {S.loaded} \cup ClobberValues ELSE {S.loaded}

Commit(S) ==
    /\ m_textureIDs' = S.ids
    /\ m_loadedTextures' \in OverflowOutcomes(S)
    /\ glNextName' = S.next
    /\ glTextures' = S.textures
    /\ glActive' = S.active
    /\ glUnits' = S.units
    /\ heldImages' = S.held
    /\ ub' = S.ub

CommitShader(G) ==
    /\ uniforms' = G.u
    /\ drawn' = G.drawn
    /\ fault' = G.fault

\* contents an uninitialised OBJECT_MATERIAL local may hold
JunkMaterials ==
    { [tag |-> "", ambientColor |-> <<v, v, v>>, ambientStrength |-> v,
       diffuseColor |-> <<v, v, v>>, specularColor |-> <<v, v, v>>,
       shininess |-> v] : v \in {-7, 9} }

NoMaterial ==
    [tag |-> "", ambientColor |-> <<0, 0, 0>>, ambientStrength |-> 0,
     diffuseColor |-> <<0, 0, 0>>, specularColor |-> <<0, 0, 0>>,
     shininess |-> 0]

NoTransform == [scale |-> <<0, 0, 0>>, rx |-> 0, ry |-> 0, rz |-> 0,
                pos |-> <<0, 0, 0>>]

\* the registry members as SceneManager.h declares them; the header is not
\* part of the source tree, and the constructor assigns neither member, so
\* the empty registry the design describes is taken as their initial value
RegistryDeclared ==
    /\ m_textureIDs = <<>>
    /\ m_loadedTextures = 0

\* lines 34-38: the state after construction
InitObject ==
    /\ RegistryDeclared
    /\ m_objectMaterials = <<>>
    /\ glNextName = 1
    /\ glTextures = {}
    /\ glActive = 0
    /\ glUnits = <<>>
    /\ heldImages = 0
    /\ ub = FALSE
    /\ uniforms = ZeroUniforms
    /\ fault = FALSE
    /\ meshes = {}
    /\ drawn = <<>>
    /\ issued = <<>>
    /\ directLoads = 0
    /\ destroys = 0
    /\ ret = Call("SceneManager", "", 0, TRUE, 0)

Init ==
    /\ InitObject
    /\ m_pShaderManager = "shader"
    /\ material = NoMaterial
    /\ xform = NoTransform

CreateGLTexture(colorChannels, tag) ==
    /\ ~ub
    /\ colorChannels = 0 \/ directLoads < MaxLoads
    /\ LET S == CreateGLTextureStep(Machine, colorChannels, tag)
       IN  /\ Commit(S)
           /\ issued' = S.log
           /\ ret' = Call("CreateGLTexture", tag, colorChannels, S.ok, 0)
    /\ directLoads' = IF colorChannels = 0 THEN directLoads ELSE directLoads + 1
    /\ UNCHANGED <<m_objectMaterials, m_pShaderManager, shaderVars, meshes,
                   material, xform, destroys>>

BindGLTextures ==
    /\ Commit(BindGLTexturesStep(Machine))
    /\ issued' = BindGLTexturesStep(Machine).log
    /\ ret' = Call("BindGLTextures", "", 0, TRUE, 0)
    /\ UNCHANGED <<m_objectMaterials, m_pShaderManager, shaderVars, meshes,
                   material, xform, countVars>>

DestroyGLTextures ==
    /\ ~ub
    /\ destroys < MaxDestroy
    /\ Commit(DestroyGLTexturesStep(Machine))
    /\ issued' = <<>>
    /\ ret' = Call("DestroyGLTextures", "", 0, TRUE, 0)
    /\ destroys' = destroys + 1
    /\ UNCHANGED <<m_objectMaterials, m_pShaderManager, shaderVars, meshes,
                   material, xform, directLoads>>

CallFindTextureID(tag) ==
    /\ issued' = <<>>
    /\ ret' = Call("FindTextureID", tag, 0, TRUE,
                   FindTextureID(m_textureIDs, m_loadedTextures, tag))
    /\ UNCHANGED <<regVars, glVars, ub, m_objectMaterials, m_pShaderManager,
                   shaderVars, meshes, material, xform, countVars>>

CallFindTextureSlot(tag) ==
    /\ issued' = <<>>
    /\ ret' = Call("FindTextureSlot", tag, 0, TRUE,
                   FindTextureSlot(m_textureIDs, m_loadedTextures, tag))
    /\ UNCHANGED <<regVars, glVars, ub, m_objectMaterials, m_pShaderManager,
                   shaderVars, meshes, material, xform, countVars>>

\* lines 582-604
PrepareScene(scenario) ==
    /\ ~ub
    /\ Len(m_objectMaterials) < MaxPrepare * Len(SceneMaterials)
    /\ LET S == LoadSceneTexturesStep(Machine, scenario)            \* line 585
           mats == DefineObjectMaterialsStep(m_objectMaterials)     \* line 589
           G == SetupSceneLightsStep(                               \* line 592
                    [Shader EXCEPT !.log = Issue(S.log, "DefineObjectMaterials",
                                                 Len(mats))])
       IN  /\ Commit(S)
           /\ m_objectMaterials' = mats
           /\ CommitShader(G)
           /\ issued' = LoadSceneMeshes(G.log)                      \* 598-603
    /\ meshes' = meshes \cup SceneMeshes
    /\ ret' = Call("PrepareScene", scenario, 0, TRUE, 0)
    /\ UNCHANGED <<m_pShaderManager, material, xform, countVars>>

\* the scene's material tags that SetShaderMaterial would not find although
\* the catalog is not empty: only then is the uninitialised local read
UnmatchedSceneMaterials ==
    IF Len(m_objectMaterials) = 0 THEN {}
    ELSE {SceneObjects[i].material : i \in 1..Len(SceneObjects)}
         \ {m_objectMaterials[j].tag : j \in 1..Len(m_objectMaterials)}

\* lines 612-617
RenderScene ==
    /\ \E junk \in IF UnmatchedSceneMaterials = {} THEN {NoMaterial}
                    ELSE JunkMaterials :
          LET G == RenderSceneStep(Shader, m_textureIDs, m_loadedTextures,
                                   m_objectMaterials, junk)
          IN  CommitShader(G) /\ issued' = G.log
    \* val: 2 when this pass follows another pass directly, 1 otherwise
    /\ ret' = Call("RenderScene", "", 0, TRUE,
                   IF ret.op = "RenderScene" THEN 2 ELSE 1)
    /\ UNCHANGED <<regVars, glVars, ub, m_objectMaterials, m_pShaderManager,
                   meshes, material, xform, countVars>>

\* a direct CreateGLTexture call between the scene's own operations
SceneCreateGLTexture(colorChannels, tag) ==
    /\ colorChannels = 0 \/ directLoads < MaxSceneLoads
    /\ CreateGLTexture(colorChannels, tag)

\* ------------------------------------------------------------ specifications
\* the texture registry driven directly
Next ==
    \/ \E c \in DecodeOutcomes, t \in Tags : CreateGLTexture(c, t)
    \/ BindGLTextures
    \/ DestroyGLTextures
    \/ \E t \in LookupTags : CallFindTextureID(t)
    \/ \E t \in LookupTags : CallFindTextureSlot(t)

Spec == Init /\ [][Next]_vars

\* the scene: PrepareScene and RenderScene, with direct registry calls
\* between them
NextScene ==
    \/ \E s \in DecodeScenarios : PrepareScene(s)
    \/ RenderScene
    \/ \E c \in DecodeOutcomes, t \in Tags : SceneCreateGLTexture(c, t)
    \/ BindGLTextures
    \/ DestroyGLTextures
    \/ \E t \in SceneLookupTags : CallFindTextureID(t)
    \/ \E t \in SceneLookupTags : CallFindTextureSlot(t)

SpecScene == Init /\ [][NextScene]_vars

\* the scene as the application drives it: setup and render passes, with
\* rebinding and release between them
NextRender ==
    \/ \E s \in DecodeScenarios : PrepareScene(s)
    \/ RenderScene
    \/ BindGLTextures
    \/ DestroyGLTextures

SpecRender == Init /\ [][NextRender]_vars

\* ------------------------------------------------ the material catalog alone
\* materials pushed directly: two share the tag "metal", and every field of
\* every material is different
PoolMaterial(tag, v) ==
    [tag |-> tag, ambientColor |-> <<v, v + 1, v + 2>>,
     ambientStrength |-> v + 3, diffuseColor |-> <<v + 4, v + 5, v + 6>>,
     specularColor |-> <<v + 7, v + 8, v + 9>>, shininess |-> v + 10]

MaterialPool ==
    {PoolMaterial("metal", 100), PoolMaterial("metal", 200),
     PoolMaterial("wood", 300)}

MaterialTags == {"metal", "wood", "woodMaterial"}

\* m_objectMaterials.push_back(m), as lines 395 ... 492 do
PushMaterial(m) ==
    /\ Len(m_objectMaterials) < MaxCatalog
    /\ m_objectMaterials' = Append(m_objectMaterials, m)
    /\ issued' = <<>>
    /\ ret' = Call("push_back", m.tag, 0, TRUE, 0)
    /\ UNCHANGED <<regVars, glVars, ub, m_pShaderManager, shaderVars, meshes,
                   material, xform, countVars>>

\* lines 383-494
DefineObjectMaterials ==
    /\ Len(m_objectMaterials) <= MaxCatalog
    /\ m_objectMaterials' = DefineObjectMaterialsStep(m_objectMaterials)
    /\ issued' = <<>>
    /\ ret' = Call("DefineObjectMaterials", "", 0, TRUE, 0)
    /\ UNCHANGED <<regVars, glVars, ub, m_pShaderManager, shaderVars, meshes,
                   material, xform, countVars>>

\* the caller declares or fills the OBJECT_MATERIAL it will pass
CallerMaterial(out) ==
    /\ material' = out
    /\ issued' = <<>>
    /\ ret' = Call("OBJECT_MATERIAL", out.tag, 0, TRUE, 0)
    /\ UNCHANGED <<regVars, glVars, ub, m_objectMaterials, m_pShaderManager,
                   shaderVars, meshes, xform, countVars>>

\* FindMaterial(tag, material) on the caller's struct
CallFindMaterial(tag) ==
    /\ LET found == FindMaterial(m_objectMaterials, tag, material)
       IN  /\ material' = found.material
           /\ ret' = Call("FindMaterial", tag, 0, found.ok, 0)
    /\ issued' = <<>>
    /\ UNCHANGED <<regVars, glVars, ub, m_objectMaterials, m_pShaderManager,
                   shaderVars, meshes, xform, countVars>>

NextMat ==
    \/ \E m \in MaterialPool : PushMaterial(m)
    \/ DefineObjectMaterials
    \/ \E out \in JunkMaterials : CallerMaterial(out)
    \/ \E t \in MaterialTags : CallFindMaterial(t)

SpecMat == Init /\ [][NextMat]_vars

\* ------------------------------------------------ SetTransformations alone
Scales == {k * Milli : k \in 1..MaxScale}
Positions == {k * Milli : k \in 0..MaxPos}
Angles == {k * 90 : k \in 0..MaxQuarterTurns}

TransformInputs ==
    {[scale |-> <<sx, sy, sz>>, rx |-> rx, ry |-> ry, rz |-> rz,
      pos |-> <<px, py, pz>>] :
        sx \in Scales, sy \in Scales, sz \in Scales,
        rx \in Angles, ry \in Angles, rz \in Angles,
        px \in Positions, py \in Positions, pz \in Positions}

InitTransform ==
    /\ InitObject
    /\ m_pShaderManager = "shader"
    /\ material = NoMaterial
    /\ xform \in TransformInputs

\* SetTransformations(scaleXYZ, Xrot, Yrot, Zrot, positionXYZ)
CallSetTransformations ==
    /\ ret.op = "SceneManager"
    /\ LET G == SetTransformationsStep(Shader, xform.scale, xform.rx,
                                       xform.ry, xform.rz, xform.pos)
       IN  CommitShader(G) /\ issued' = G.log
    /\ ret' = Call("SetTransformations", "", 0, TRUE, 0)
    /\ UNCHANGED <<regVars, glVars, ub, m_objectMaterials, m_pShaderManager,
                   meshes, material, xform, countVars>>

NextTransform == CallSetTransformations

SpecTransform == InitTransform /\ [][NextTransform]_vars

\* ------------------------------------------- the shader-state setters alone
\* the setters called one at a time, on a SceneManager constructed with or
\* without a ShaderManager, over small registries and catalogs
ShaderColors == << <<Milli, 0, 0, Milli>>, <<0, 500, Milli, 500>> >>
ShaderUVScales == << <<Milli, Milli>>, <<700, 700>> >>
ShaderTransforms ==
    << [scale |-> <<Milli, 2 * Milli, Milli>>, rx |-> 0, ry |-> 90, rz |-> 0,
        pos |-> <<Milli, 0, 0>>] >>

InitShader ==
    /\ InitObject
    /\ m_pShaderManager \in {"shader", "NULL"}
    /\ material = NoMaterial
    /\ xform = NoTransform

\* a setter call: the shader variables and the log take what the call left;
\* nothing is called once a NULL m_pShaderManager has been dereferenced
SetterCall(G, op, tag, val) ==
    /\ ~fault
    /\ CommitShader(G)
    /\ issued' = G.log
    /\ ret' = Call(op, tag, 0, TRUE, val)
    /\ UNCHANGED <<regVars, glVars, ub, m_objectMaterials, m_pShaderManager,
                   meshes, material, countVars>>

SetTransformations(i) ==
    LET x == ShaderTransforms[i]
    IN  /\ SetterCall(SetTransformationsStep(Shader, x.scale, x.rx, x.ry, x.rz,
                                             x.pos),
                      "SetTransformations", "", i)
        /\ xform' = x

SetShaderColor(i) ==
    LET c == ShaderColors[i]
    IN  /\ SetterCall(SetShaderColorStep(Shader, c[1], c[2], c[3], c[4]),
                      "SetShaderColor", "", i)
        /\ UNCHANGED xform

SetShaderTexture(textureTag) ==
    /\ SetterCall(SetShaderTextureStep(Shader, m_textureIDs, m_loadedTextures,
                                       textureTag),
                  "SetShaderTexture", textureTag, 0)
    /\ UNCHANGED xform

SetTextureUVScale(i) ==
    /\ SetterCall(SetTextureUVScaleStep(Shader, ShaderUVScales[i][1],
                                        ShaderUVScales[i][2]),
                  "SetTextureUVScale", "", i)
    /\ UNCHANGED xform

\* the uninitialised local is read only when the catalog is not empty and
\* holds no entry with the tag
SetShaderMaterial(materialTag) ==
    /\ \E junk \in IF /\ Len(m_objectMaterials) > 0
                      /\ ScanMaterials(m_objectMaterials, materialTag, 0)
                            = Len(m_objectMaterials)
                   THEN JunkMaterials ELSE {NoMaterial} :
          SetterCall(SetShaderMaterialStep(Shader, m_objectMaterials,
                                           materialTag, junk),
                     "SetShaderMaterial", materialTag, 0)
    /\ UNCHANGED xform

\* the registry and the catalog are filled by a successful load and by
\* push_back, as CreateGLTexture and DefineObjectMaterials do
ShaderPushMaterial(m) ==
    /\ ~fault
    /\ Len(m_objectMaterials) < MaxShaderCatalog
    /\ PushMaterial(m)

ShaderCreateGLTexture(tag) ==
    /\ ~fault
    /\ SceneCreateGLTexture(3, tag)

NextShader ==
    \/ \E i \in 1..Len(ShaderTransforms) : SetTransformations(i)
    \/ \E i \in 1..Len(ShaderColors) : SetShaderColor(i)
    \/ \E t \in LookupTags : SetShaderTexture(t)
    \/ \E i \in 1..Len(ShaderUVScales) : SetTextureUVScale(i)
    \/ \E t \in MaterialTags : SetShaderMaterial(t)
    \/ \E m \in MaterialPool : ShaderPushMaterial(m)
    \/ \E t \in Tags : ShaderCreateGLTexture(t)

SpecShader == InitShader /\ [][NextShader]_vars

\* ==================================================================== claims
\* tags the registry carries: those of the first m_loadedTextures entries
RegisteredTags ==
    {m_textureIDs[i].tag : i \in 1..m_loadedTextures}

\* C2: whenever the decode fails or the channel count is neither 3 nor 4,
\* CreateGLTexture returns false and the registry (entry count and every
\* entry) is as it was before the call.
C2_FailedLoadLeavesRegistry ==
    [][(ret'.op = "CreateGLTexture" /\ ret'.chan \notin {3, 4})
          => (ret'.ok = FALSE /\ UNCHANGED regVars)]_vars

\* C2 witness: a greyscale image was refused while the registry held entries
C2_Witness ==
    /\ ret.op = "CreateGLTexture"
    /\ ret.chan = 1
    /\ ret.ok = FALSE
    /\ m_loadedTextures >= 1

\* C4: FindTextureSlot and FindTextureID, called with a tag no registry
\* entry carries, return -1 and leave the registry unchanged.
C4_UnregisteredTagNotFound ==
    [][(ret'.op \in {"FindTextureID", "FindTextureSlot"})
          => /\ UNCHANGED regVars
             /\ (ret'.tag \notin RegisteredTags => ret'.val = NotFound)]_vars

\* C4 witness: a lookup missed in a registry that is not empty
C4_Witness ==
    /\ ret.op = "FindTextureSlot"
    /\ ret.val = NotFound
    /\ m_loadedTextures >= 1
    /\ ret.tag \notin RegisteredTags

\* C5: after DestroyGLTextures the registry is empty, every lookup returns
\* -1, and no texture the registry names is still allocated.
C5_DestroyEmptiesRegistry ==
    ret.op = "DestroyGLTextures" =>
        /\ m_loadedTextures = 0
        /\ \A t \in LookupTags \cup SceneLookupTags :
              /\ FindTextureSlot(m_textureIDs, m_loadedTextures, t) = NotFound
              /\ FindTextureID(m_textureIDs, m_loadedTextures, t) = NotFound
        /\ \A i \in 1..Len(m_textureIDs) : m_textureIDs[i].ID \notin glTextures

\* the tags of the registry's entries, in registration order
TagsOf(ids, loaded) == [i \in 1..loaded |-> ids[i].tag]

\* the smallest index whose tag is t, NotFound when there is none
FirstIndexOf(tags, t) ==
    IF \E i \in 1..Len(tags) : tags[i] = t
    THEN (CHOOSE i \in 1..Len(tags) :
             /\ tags[i] = t
             /\ \A j \in 1..(i - 1) : tags[j] # t) - 1
    ELSE NotFound

\* the tags a LoadSceneTextures call registers: those of the files that
\* decode to 3 or 4 channels, in the order the call loads them
SuccessfulSceneTags(scenario) ==
    SelectSeq([i \in 1..Len(SceneTextures) |-> SceneTextures[i].tag],
              LAMBDA t : \E i \in 1..Len(SceneTextures) :
                            /\ SceneTextures[i].tag = t
                            /\ Decode(scenario, SceneTextures[i].file) \in {3, 4})

\* the tags a step registers, taken from the call it reports
LoadedTagsOfCall(call) ==
    CASE call.op = "CreateGLTexture" /\ call.ok -> <<call.tag>>
      [] call.op = "PrepareScene" -> SuccessfulSceneTags(call.tag)
      [] OTHER -> <<>>

AllLookupTags ==
    LookupTags \cup SceneLookupTags
        \cup {SceneTextures[i].tag : i \in 1..Len(SceneTextures)}

C6_RegistryWithinCapacity ==
    /\ m_loadedTextures <= MaxTextureSlots
    /\ Len(m_textureIDs) <= MaxTextureSlots

\* the catalog indices (1-based) whose entry carries the tag
MatchingEntries(tag) ==
    {i \in 1..Len(m_objectMaterials) : m_objectMaterials[i].tag = tag}

\* the first entry in insertion order with the tag
FirstMatchingEntry(tag) ==
    m_objectMaterials[CHOOSE i \in MatchingEntries(tag) :
                          \A j \in MatchingEntries(tag) : i <= j]

\* C7: when no catalog entry carries the requested tag, FindMaterial returns
\* false and the caller's material is as it was before the call, for the
\* empty catalog and for a catalog that holds other tags.
C7_MissReportsFailure ==
    [][(ret'.op = "FindMaterial" /\ MatchingEntries(ret'.tag) = {})
          => (ret'.ok = FALSE /\ material' = material)]_vars

\* C8: when an entry carries the requested tag, FindMaterial returns true,
\* the five fields of the output equal those of the first such entry, also
\* when a later entry reuses the tag, and the catalog is not modified.
C8_HitCopiesFirstMatch ==
    [][(ret'.op = "FindMaterial" /\ MatchingEntries(ret'.tag) # {})
          => LET m == FirstMatchingEntry(ret'.tag)
             IN  /\ ret'.ok = TRUE
                 /\ material'.ambientColor = m.ambientColor
                 /\ material'.ambientStrength = m.ambientStrength
                 /\ material'.diffuseColor = m.diffuseColor
                 /\ material'.specularColor = m.specularColor
                 /\ material'.shininess = m.shininess
                 /\ m_objectMaterials' = m_objectMaterials]_vars

\* C8 witness: the tag is carried by two entries that differ, and the lookup
\* returned the fields of the first one
C8_Witness ==
    /\ ret.op = "FindMaterial"
    /\ ret.ok = TRUE
    /\ \E i, j \in MatchingEntries(ret.tag) :
          /\ i < j
          /\ m_objectMaterials[i] # m_objectMaterials[j]
    /\ material.shininess = FirstMatchingEntry(ret.tag).shininess

\* a point moved step by step, without any matrix: each step is the plain
\* coordinate formula of the transformation
ScalePoint(v, p) ==
    <<(v[1] * p[1]) \div Milli, (v[2] * p[2]) \div Milli,
      (v[3] * p[3]) \div Milli>>

TurnAboutZ(degrees, p) ==
    LET c == CosMilli(degrees)  s == SinMilli(degrees)
    IN  <<(c * p[1] - s * p[2]) \div Milli, (s * p[1] + c * p[2]) \div Milli,
          p[3]>>

TurnAboutY(degrees, p) ==
    LET c == CosMilli(degrees)  s == SinMilli(degrees)
    IN  <<(c * p[1] + s * p[3]) \div Milli, p[2],
          (c * p[3] - s * p[1]) \div Milli>>

TurnAboutX(degrees, p) ==
    LET c == CosMilli(degrees)  s == SinMilli(degrees)
    IN  <<p[1], (c * p[2] - s * p[3]) \div Milli,
          (s * p[2] + c * p[3]) \div Milli>>

MovePoint(v, p) == <<p[1] + v[1], p[2] + v[2], p[3] + v[3]>>

\* scaled first, then turned about Z, then Y, then X, then translated
PlacedPoint(x, p) ==
    MovePoint(x.pos,
        TurnAboutX(x.rx, TurnAboutY(x.ry, TurnAboutZ(x.rz,
            ScalePoint(x.scale, p)))))

\* the matrix M applied to the point p (w = 1)
ApplyModel(M, p) ==
    LET h == <<p[1], p[2], p[3], Milli>>
    IN  <<Dot4(M[1], h) \div Milli, Dot4(M[2], h) \div Milli,
          Dot4(M[3], h) \div Milli>>

\* the origin, the three unit points and one point off every axis: an
\* affine matrix is determined by where it sends the first four
ProbePoints ==
    {<<0, 0, 0>>, <<Milli, 0, 0>>, <<0, Milli, 0>>, <<0, 0, Milli>>,
     <<Milli, 2 * Milli, 3 * Milli>>}

\* C9: the matrix SetTransformations uploads as "model" sends every point to
\* where scaling, then rotating about Z, then Y, then X, then translating
\* sends it, and its last row is (0, 0, 0, 1): it is the product
\* Translate x RotateX x RotateY x RotateZ x Scale in that order.
C9_ModelMatrixOrder ==
    ret.op = "SetTransformations" =>
        /\ uniforms["model"][4] = <<0, 0, 0, Milli>>
        /\ \A p \in ProbePoints :
              ApplyModel(uniforms["model"], p) = PlacedPoint(xform, p)

\* C9 witness: a call with three different scale factors, a quarter turn
\* about every axis and a translation, where the order of the factors shows
C9_Witness ==
    /\ ret.op = "SetTransformations"
    /\ xform.scale = <<Milli, 2 * Milli, Milli>>
    /\ xform.rx = 90 /\ xform.ry = 90 /\ xform.rz = 90
    /\ xform.pos = <<Milli, 0, Milli>>
    /\ uniforms["model"] # ZeroMat

\* the input of the hand-computed case
HandComputedCase ==
    /\ ret.op = "SetTransformations"
    /\ xform = [scale |-> <<Milli, 2 * Milli, Milli>>, rx |-> 0, ry |-> 90,
                rz |-> 0, pos |-> <<Milli, 0, 0>>]

\* C10 as stated: for scale (1,2,1), rotY = 90, position (1,0,0) the model
\* matrix sends the point (1,0,0) to (1,0,-2).
C10_HandComputedAsStated ==
    HandComputedCase =>
        ApplyModel(uniforms["model"], <<Milli, 0, 0>>) = <<Milli, 0, -2 * Milli>>

\* C10 amended: for scale (1,2,1), rotY = 90, position (1,0,0) the model
\* matrix sends the point (1,0,0) to (1,0,-1).
C10_HandComputedPoint ==
    HandComputedCase =>
        ApplyModel(uniforms["model"], <<Milli, 0, 0>>) = <<Milli, 0, -Milli>>

\* C10 witness: SetTransformations has run on the hand-computed input
C10_Witness ==
    /\ HandComputedCase
    /\ uniforms["model"][1][4] = Milli

\* ------------------------------------------------------------ PrepareScene
\* the step of PrepareScene an entry of the call log belongs to
SetupPhase(name) ==
    CASE name = "CreateGLTexture" -> 1
      [] name = "BindGLTextures" -> 2
      [] name = "DefineObjectMaterials" -> 3
      [] name = "LoadMesh" -> 5
      [] OTHER -> 4                        \* a light uniform write

CallsOfPhase(log, phase) ==
    {i \in 1..Len(log) : SetupPhase(log[i].name) = phase}

\* unit i holds the handle of registry entry i, for every entry
AllRegisteredBound ==
    \A i \in 0..(m_loadedTextures - 1) :
        /\ i \in DOMAIN glUnits
        /\ glUnits[i] = m_textureIDs[i + 1].ID

\* C12: PrepareScene makes its calls in this order: the ten texture loads,
\* one BindGLTextures, the catalog population, the light uniform writes, the
\* six mesh loads; no load follows BindGLTextures and every registered
\* texture is bound to its unit when PrepareScene returns.
C12_SetupOrder ==
    ret.op = "PrepareScene" =>
        /\ \A i, j \in 1..Len(issued) :
              i < j => SetupPhase(issued[i].name) <= SetupPhase(issued[j].name)
        /\ Cardinality(CallsOfPhase(issued, 1)) = Len(SceneTextures)
        /\ Cardinality(CallsOfPhase(issued, 2)) = 1
        /\ Cardinality(CallsOfPhase(issued, 3)) = 1
        /\ {issued[i].name : i \in CallsOfPhase(issued, 4)}
              = {"bUseLighting"}
                   \cup {LightName(l, f) : l \in {0, 1},
                                           f \in LightFields3 \cup LightFields1}
        /\ [i \in 1..Len(SceneMeshLoads) |->
               issued[Len(issued) - Len(SceneMeshLoads) + i].value]
              = SceneMeshLoads
        /\ AllRegisteredBound

\* C12 witness: a PrepareScene whose ten loads all succeeded has returned
\* with the last of them bound to unit 9
C12_Witness ==
    /\ ret.op = "PrepareScene"
    /\ ret.tag = "all"
    /\ m_loadedTextures = Len(SceneTextures)
    /\ glUnits[9] = m_textureIDs[10].ID
    /\ Len(issued) > Len(SceneTextures)

\* ------------------------------------------------------------- RenderScene
\* the number of draws among the first i - 1 entries of the log
DrawsBefore(log, i) ==
    Cardinality({j \in 1..(i - 1) : log[j].name = "DrawMesh"})

\* entry i opens the section of an object: it is the first entry, or it
\* follows a draw
OpensObject(log, i) == i = 1 \/ log[i - 1].name = "DrawMesh"

\* the uniforms that carry an object's texture and material state
ObjectStateUniforms ==
    {"bUseTexture", "objectTexture", "UVscale", "material.ambientColor",
     "material.ambientStrength", "material.diffuseColor",
     "material.specularColor", "material.shininess"}

\* C13: one RenderScene pass issues, for the objects in list order, first
\* the object's model matrix, then only texture and material state writes,
\* then the draw of the object's mesh; there is one draw per object and the
\* pass ends with the last draw, whatever the texture lookups returned.
C13_RenderOrder ==
    ret.op = "RenderScene" =>
        /\ DrawsBefore(issued, Len(issued) + 1) = Len(SceneObjects)
        /\ issued[Len(issued)].name = "DrawMesh"
        /\ drawn = [k \in 1..Len(SceneObjects) |-> SceneObjects[k].mesh]
        /\ \A i \in 1..Len(issued) :
              LET k == DrawsBefore(issued, i) + 1
              IN  /\ OpensObject(issued, i) <=> issued[i].name = "model"
                  /\ issued[i].name = "model"
                        => issued[i].value = SceneModelViews[k]
                  /\ issued[i].name = "DrawMesh"
                        => issued[i].value = SceneObjects[k].mesh
                  /\ issued[i].name \in
                        {"model", "DrawMesh"} \cup ObjectStateUniforms

\* C13 witness: a pass has drawn all fifteen objects although the registry
\* holds textures and the last texture lookup returned -1
C13_Witness ==
    /\ ret.op = "RenderScene"
    /\ Len(drawn) = Len(SceneObjects)
    /\ m_loadedTextures > 0
    /\ uniforms["objectTexture"] = NotFound

\* two call logs are the same: the same calls with the same values, in the
\* same order
SameLog(a, b) ==
    /\ Len(a) = Len(b)
    /\ \A i \in 1..Len(a) :
          /\ a[i].name = b[i].name
          /\ a[i].value = b[i].value

\* C14: a RenderScene pass that directly follows another pass issues the
\* same uniform writes and draws, with the same values and in the same
\* order, as the pass before it; no pass changes the texture registry or
\* the material catalog.
C14_RenderRepeatable ==
    [][ret'.op = "RenderScene"
          => /\ UNCHANGED <<regVars, m_objectMaterials>>
             /\ ret.op = "RenderScene" => SameLog(issued, issued')]_vars

\* C14 witness: a second pass in a row over the fully set-up scene
C14_Witness ==
    /\ ret.op = "RenderScene"
    /\ ret.val = 2
    /\ m_loadedTextures = Len(SceneTextures)
    /\ Len(m_objectMaterials) = Len(SceneMaterials)
    /\ Len(drawn) = Len(SceneObjects)

\* the value of the last write of a uniform among the first i - 1 entries of
\* the log (the log holds at least one such write)
LastWritten(log, i, name) ==
    LET writes == {j \in 1..(i - 1) : log[j].name = name}
    IN  log[CHOOSE j \in writes : \A h \in writes : h <= j].value

\* the draws of the log whose UV scale can be read off the log
DrawsWithUV(log) ==
    {i \in 1..Len(log) :
        /\ log[i].name = "DrawMesh"
        /\ \E j \in 1..(i - 1) : log[j].name = "UVscale"}

\* the UV scale the k-th object of the scene is to be drawn with
ExpectedUV(k) ==
    LET o == SceneObjects[k]
    IN  CASE o.uv # <<>> -> o.uv[1]
          [] o.uv = <<>> /\ o.texture = "rubber" -> <<700, 700>>
          [] o.uv = <<>> /\ o.texture = "lead" -> <<Milli, Milli>>

\* C19: in every RenderScene pass each object is drawn with the UV scale it
\* wrote itself, except the eraser cylinder, drawn with the (0.7, 0.7) the
\* metal cylinder wrote, and the lead cone, drawn with the (1.0, 1.0) the
\* wood tip wrote.
C19_UVScaleCarriesOver ==
    ret.op = "RenderScene" =>
        /\ DrawsWithUV(issued) = {i \in 1..Len(issued) :
                                     issued[i].name = "DrawMesh"}
        /\ \A i \in DrawsWithUV(issued) :
              LastWritten(issued, i, "UVscale")
                 = ExpectedUV(DrawsBefore(issued, i) + 1)

\* C19 witness: the eraser cylinder, fourth in the list and without a UV
\* scale of its own, has been drawn and the pass is complete
C19_Witness ==
    /\ ret.op = "RenderScene"
    /\ SceneObjects[4].texture = "rubber"
    /\ SceneObjects[4].uv = <<>>
    /\ SceneObjects[3].texture = "metal"
    /\ Len(drawn) = Len(SceneObjects)
    /\ \E i \in DrawsWithUV(issued) :
          /\ DrawsBefore(issued, i) = 3
          /\ LastWritten(issued, i, "UVscale") = <<700, 700>>

SetterOps ==
    {"SetTransformations", "SetShaderColor", "SetShaderTexture",
     "SetTextureUVScale", "SetShaderMaterial"}

MaterialUniformNames ==
    {"material.ambientColor", "material.ambientStrength",
     "material.diffuseColor", "material.specularColor", "material.shininess"}

\* C11: with m_pShaderManager NULL, each of the five setters writes no
\* uniform and does not dereference the missing shader manager, whatever the
\* catalog holds.
C11_NullSinkNoOp ==
    [][(m_pShaderManager = "NULL" /\ ret'.op \in SetterOps)
          => /\ issued' = <<>>
             /\ uniforms' = uniforms
             /\ fault' = FALSE]_vars

\* C15: SetShaderMaterial called (with a shader manager) for a tag that no
\* catalog entry carries writes none of the five material uniforms: they
\* keep the values last uploaded.
C15_MaterialMissWritesNothing ==
    [][(/\ m_pShaderManager = "shader"
        /\ ret'.op = "SetShaderMaterial"
        /\ MatchingEntries(ret'.tag) = {})
          => /\ \A i \in 1..Len(issued') :
                   issued'[i].name \notin MaterialUniformNames
             /\ \A n \in MaterialUniformNames : uniforms'[n] = uniforms[n]]_vars

\* C17: (with a shader manager) SetShaderColor writes the use-texture flag
\* as false and the color; SetShaderTexture writes the flag as true and, as
\* sampler unit, the first registry index carrying the tag, -1 when no entry
\* carries it; no other setter changes the flag.
C17_UseTextureFlag ==
    [][m_pShaderManager = "shader" =>
          /\ ret'.op = "SetShaderColor" =>
                /\ uniforms'["bUseTexture"] = 0
                /\ uniforms'["objectColor"] = ShaderColors[ret'.val]
                /\ Len(issued') = 2
          /\ ret'.op = "SetShaderTexture" =>
                /\ uniforms'["bUseTexture"] = 1
                /\ uniforms'["objectTexture"]
                      = FirstIndexOf(TagsOf(m_textureIDs, m_loadedTextures),
                                     ret'.tag)
                /\ Len(issued') = 2
          /\ ret'.op \notin {"SetShaderColor", "SetShaderTexture"} =>
                uniforms'["bUseTexture"] = uniforms["bUseTexture"]]_vars

\* C17 witness: SetShaderTexture, called after SetShaderColor for a tag the
\* non-empty registry does not hold, has set the flag and written -1
C17_Witness ==
    /\ ret.op = "SetShaderTexture"
    /\ ret.tag = "missing"
    /\ m_loadedTextures >= 1
    /\ uniforms["objectColor"] = ShaderColors[1]
    /\ uniforms["bUseTexture"] = 1
    /\ uniforms["objectTexture"] = NotFound

\* C16: when BindGLTextures returns, texture unit i holds the handle of
\* registry entry i for every i below the entry count, so the unit
\* FindTextureSlot(t) names holds the handle FindTextureID(t) returns.
C16_UnitEqualsIndex ==
    ret.op = "BindGLTextures" =>
        /\ AllRegisteredBound
        /\ \A t \in LookupTags :
              LET slot == FindTextureSlot(m_textureIDs, m_loadedTextures, t)
              IN  slot # NotFound =>
                     glUnits[slot]
                        = FindTextureID(m_textureIDs, m_loadedTextures, t)

\* C16 witness: BindGLTextures has returned with two entries registered
\* under the same tag, each bound to its own unit
C16_Witness ==
    /\ ret.op = "BindGLTextures"
    /\ m_loadedTextures >= 2
    /\ m_textureIDs[1].tag = m_textureIDs[2].tag
    /\ glUnits[0] = m_textureIDs[1].ID
    /\ glUnits[1] = m_textureIDs[2].ID

\* C20: a CreateGLTexture call that returns false holds no decoded image,
\* and allocates and binds no texture: the OpenGL state is as before the
\* call.
C20_FailedLoadLeavesNothing ==
    [][(ret'.op = "CreateGLTexture" /\ ret'.ok = FALSE)
          => /\ heldImages' = heldImages
             /\ glTextures' = glTextures
             /\ glUnits' = glUnits]_vars

====
